---- MODULE Spec2Model ----
(***************************************************************************)
(* Model of apytor.py: a command-line wrapper that supervises the aria2c   *)
(* download engine with bounded retries, linear backoff and one fallback   *)
(* attempt.  Strings that the program inspects character by character      *)
(* (the user's input, the engine's output lines) are sequences of          *)
(* one-character strings; fixed flags are plain strings.                   *)
(***************************************************************************)
EXTENDS Integers, Sequences, FiniteSets, TLC

(* ------------------------------ bounds -------------------------------- *)
\* most output lines one engine run emits before it closes its output
MaxLines == 2
\* engine exit statuses range over 0..MaxExit
MaxExit == 2

(* -------------------------- program constants ------------------------- *)
RETRY_COUNT == 3
RETRY_DELAY_BASE == 5

MAX_OVERALL_DOWNLOAD_LIMIT == "4M"
MAX_OVERALL_UPLOAD_LIMIT == "200K"
MAX_CONNECTIONS_PER_SERVER == "4"
LISTEN_PORT == "6881"
ENABLE_DHT == TRUE
ENABLE_PEX == TRUE
EXTRA_TRACKERS ==
  << "udp://tracker.opentrackr.org:1337/announce",
     "udp://open.stealth.si:80/announce",
     "udp://tracker.torrent.eu.org:451/announce",
     "udp://opentracker.i2p.rocks:6969/announce" >>
ARIA2_PATH == "aria2c.exe"

(* --------------------------- character strings ------------------------ *)
Digits == <<"0", "1", "2", "3", "4", "5", "6", "7", "8", "9">>

IsDigit(c) == \E i \in 1..10 : Digits[i] = c

DigitVal(c) == (CHOOSE i \in 1..10 : Digits[i] = c) - 1

\* str.strip() and str.split() with no argument treat these as whitespace
IsSpace(c) == c \in {" ", "\t", "\n", "\r"}

RECURSIVE LStrip(_)
LStrip(s) == IF s # <<>> /\ IsSpace(Head(s)) THEN LStrip(Tail(s)) ELSE s

RECURSIVE RStrip(_)
RStrip(s) ==
  IF s # <<>> /\ IsSpace(s[Len(s)]) THEN RStrip(SubSeq(s, 1, Len(s) - 1)) ELSE s

\* str.strip()
Strip(s) == RStrip(LStrip(s))

\* str.startswith(prefix)
StartsWith(s, prefix) ==
  /\ Len(prefix) <= Len(s)
  /\ SubSeq(s, 1, Len(prefix)) = prefix

\* c in s
Contains(s, c) == \E i \in 1..Len(s) : s[i] = c

\* s.split(c)[0]: everything before the first c (all of s when c is absent)
BeforeFirst(s, c) ==
  IF Contains(s, c)
    THEN SubSeq(s, 1, (CHOOSE i \in 1..Len(s) :
                         s[i] = c /\ \A j \in 1..(i - 1) : s[j] # c) - 1)
    ELSE s

\* s.split(): the maximal runs of non-whitespace characters, in order
RECURSIVE SplitWS(_)
SplitWS(s) ==
  LET t == LStrip(s)
  IN IF t = <<>> THEN <<>>
     ELSE LET ends == {i \in 1..Len(t) : IsSpace(t[i])}
              n == IF ends = {} THEN Len(t)
                   ELSE (CHOOSE i \in ends : \A j \in ends : i <= j) - 1
          IN <<SubSeq(t, 1, n)>> \o SplitWS(SubSeq(t, n + 1, Len(t)))

(* int(token) accepts an optional sign followed by decimal digits, with    *)
(* single underscores allowed between digits; anything else raises         *)
(* ValueError.  (The token comes from split(), so it has no whitespace.)   *)
IsIntBody(b) ==
  /\ b # <<>>
  /\ \A i \in 1..Len(b) :
       \/ IsDigit(b[i])
       \/ /\ b[i] = "_"
          /\ 1 < i /\ i < Len(b)
          /\ IsDigit(b[i - 1]) /\ IsDigit(b[i + 1])

IntBody(tok) == IF tok # <<>> /\ tok[1] \in {"+", "-"} THEN Tail(tok) ELSE tok

IsIntLiteral(tok) == IsIntBody(IntBody(tok))

RECURSIVE DigitsValue(_, _)
DigitsValue(b, acc) ==
  IF b = <<>> THEN acc
  ELSE IF Head(b) = "_" THEN DigitsValue(Tail(b), acc)
  ELSE DigitsValue(Tail(b), 10 * acc + DigitVal(Head(b)))

IntValue(tok) ==
  IF tok[1] = "-" THEN 0 - DigitsValue(IntBody(tok), 0)
  ELSE DigitsValue(IntBody(tok), 0)

(* The body of the read loop's try block, applied to the stripped line:    *)
(* ok is FALSE when the line has no '%' or when split()[-1] / int() raise  *)
(* (IndexError, ValueError), which the except clause swallows.             *)
ParsePercent(line) ==
  IF ~Contains(line, "%") THEN [ok |-> FALSE, val |-> 0]
  ELSE LET toks == SplitWS(BeforeFirst(line, "%"))
       IN IF toks = <<>> THEN [ok |-> FALSE, val |-> 0]
          ELSE LET percent_str == toks[Len(toks)]
               IN IF IsIntLiteral(percent_str)
                    THEN [ok |-> TRUE, val |-> IntValue(percent_str)]
                    ELSE [ok |-> FALSE, val |-> 0]

(* ------------------------------ pathlib -------------------------------- *)
\* path separators: Windows accepts both, POSIX only the slash
Seps(nt) == IF nt THEN {"/", "\\"} ELSE {"/"}

Sep(nt) == IF nt THEN "\\" ELSE "/"

\* the path's components; pathlib drops empty and "." components
RECURSIVE Components(_, _)
Components(s, seps) ==
  IF s = <<>> THEN <<>>
  ELSE LET cuts == {i \in 1..Len(s) : s[i] \in seps}
           n == IF cuts = {} THEN Len(s) + 1
                ELSE CHOOSE i \in cuts : \A j \in cuts : i <= j
           comp == SubSeq(s, 1, n - 1)
       IN (IF comp \in {<<>>, <<".">>} THEN <<>> ELSE <<comp>>)
            \o Components(SubSeq(s, n + 1, Len(s)), seps)

RECURSIVE JoinChars(_, _)
JoinChars(comps, sep) ==
  IF comps = <<>> THEN <<>>
  ELSE IF Len(comps) = 1 THEN comps[1]
  ELSE comps[1] \o <<sep>> \o JoinChars(Tail(comps), sep)

\* the text of a path whose components are joined by sep (drive letters
\* are not modelled; no input of the model has one)
PathText(p, seps, sep) ==
  LET body == JoinChars(Components(p, seps), sep)
  IN IF p # <<>> /\ p[1] \in seps THEN <<sep>> \o body
     ELSE IF body = <<>> THEN <<".">>
     ELSE body

\* str(Path(p))
PathStr(p, nt) == PathText(p, Seps(nt), Sep(nt))

\* the directory the program runs in: two regular files and the directory
\* itself
FsFiles ==
  { <<"a", ".", "t", "o", "r", "r", "e", "n", "t">>,
    <<"m", "a", "g", "n", "e", "t", ":", "f">> }

FsDirs == { <<".">> }

\* Path(p).is_file()
IsFile(p, nt) == PathText(p, Seps(nt), "/") \in FsFiles

\* Path(p).exists()
Exists(p, nt) == PathText(p, Seps(nt), "/") \in FsFiles \cup FsDirs

(* --------------------------- argument lists ---------------------------- *)
\* one argument: fixed text followed by text taken from the user's input
Arg(lit, txt) == [lit |-> lit, txt |-> txt]

Flag(lit) == Arg(lit, <<>>)

\* sep.join(strs)
RECURSIVE JoinStr(_, _)
JoinStr(strs, sep) ==
  IF strs = <<>> THEN ""
  ELSE IF Len(strs) = 1 THEN strs[1]
  ELSE strs[1] \o sep \o JoinStr(Tail(strs), sep)

\* build_aria2_args returns None for an input it cannot classify
None == <<>>

base_args ==
  << Flag(IF ENABLE_DHT THEN "--enable-dht=true" ELSE "--enable-dht=false"),
     Flag(IF ENABLE_PEX THEN "--enable-peer-exchange=true"
                        ELSE "--enable-peer-exchange=false"),
     Flag("--max-overall-download-limit=" \o MAX_OVERALL_DOWNLOAD_LIMIT),
     Flag("--max-overall-upload-limit=" \o MAX_OVERALL_UPLOAD_LIMIT),
     Flag("--max-connection-per-server=" \o MAX_CONNECTIONS_PER_SERVER),
     Flag("--continue=true"),
     Flag("--auto-file-renaming=true"),
     Flag("--summary-interval=1"),
     Flag("--dir=~/Downloads"),
     Flag("--listen-port=" \o LISTEN_PORT) >>
  \o (IF EXTRA_TRACKERS # <<>>
        THEN << Flag("--bt-tracker=" \o JoinStr(EXTRA_TRACKERS, ",")) >>
        ELSE <<>>)

Magnet == <<"m", "a", "g", "n", "e", "t", ":">>
Http == <<"h", "t", "t", "p", ":", "/", "/">>
Https == <<"h", "t", "t", "p", "s", ":", "/", "/">>

IsUri(s) == StartsWith(s, Magnet) \/ StartsWith(s, Http) \/ StartsWith(s, Https)

\* a classifier that looks for the file before it looks at the prefix
build_aria2_args_file_first(input_link, nt) ==
  IF IsFile(input_link, nt)
    THEN base_args \o << Flag("-T"), Arg("", PathStr(input_link, nt)) >>
  ELSE IF IsUri(input_link)
    THEN base_args \o << Arg("", input_link) >>
  ELSE None

\* a classifier that takes any existing path for a torrent file
build_aria2_args_exists(input_link, nt) ==
  IF StartsWith(input_link, Magnet)
    THEN base_args \o << Arg("", input_link) >>
  ELSE IF StartsWith(input_link, Http) \/ StartsWith(input_link, Https)
    THEN base_args \o << Arg("", input_link) >>
  ELSE IF Exists(input_link, nt)
    THEN base_args \o << Flag("-T"), Arg("", PathStr(input_link, nt)) >>
  ELSE None

build_aria2_args(input_link, nt) ==
  IF StartsWith(input_link, Magnet)
    THEN base_args \o << Arg("", input_link) >>
  ELSE IF StartsWith(input_link, Http) \/ StartsWith(input_link, Https)
    THEN base_args \o << Arg("", input_link) >>
  ELSE IF IsFile(input_link, nt)
    THEN base_args \o << Flag("-T"), Arg("", PathStr(input_link, nt)) >>
  ELSE None

\* a fallback profile that lost its last flag
fallback_args_short(args) ==
  args \o << Flag("--bt-enable-lpd=true"),
             Flag("--bt-detach-seed-only=true"),
             Flag("--timeout=30"),
             Flag("--connect-timeout=20") >>

\* the hardening flags of the fallback attempt
fallback_args(args) ==
  args \o << Flag("--bt-enable-lpd=true"),
             Flag("--bt-detach-seed-only=true"),
             Flag("--timeout=30"),
             Flag("--connect-timeout=20"),
             Flag("--retry-wait=10") >>

\* cmd = [ARIA2_PATH] + args
Cmd(args) == << Flag(ARIA2_PATH) >> \o args

ArgsOf(command) == Tail(command)

(* ------------------------- inputs of the model ------------------------- *)
InMagnet == <<"m", "a", "g", "n", "e", "t", ":", "?", "x", "t", "=", "u", "r", "n", ":", "b", "t", "i", "h", ":", "E", "X", "A", "M", "P", "L", "E">>
InHttp == <<"h", "t", "t", "p", ":", "/", "/", "h", "/", "a", ".", "t", "o", "r", "r", "e", "n", "t">>
\* typed with blanks around it
InHttps == <<" ", "h", "t", "t", "p", "s", ":", "/", "/", "h", "/", "b", " ", "\n">>
InFile == <<".", "/", "/", "a", ".", "t", "o", "r", "r", "e", "n", "t">>
InMagnetFile == <<"m", "a", "g", "n", "e", "t", ":", "f">>
InDir == <<".">>
InMissing == <<"n", "o", "p", "e", ".", "t", "o", "r", "r", "e", "n", "t">>
InUpper == <<"M", "a", "g", "n", "e", "t", ":", "?", "x", "t", "=", "q">>
InBlank == <<" ", " ", "\t">>

\* what the user may type at the prompt
RawInputs ==
  { <<>>, InBlank, InMagnet, InHttp, InHttps, InFile,
    InMagnetFile, InDir, InMissing, InUpper }

LineAria == <<"[", "#", "a", "b", "c", "1", " ", "1", ".", "2", "M", "i", "B", "/", "1", "0", "M", "i", "B", "(", "1", "2", "%", ")", " ", "C", "N", ":", "3", " ", ".", ".", ".", "]">>
LineWeird == <<"w", "e", "i", "r", "d", "%", "t", "e", "x", "t">>
LineLeadPct == <<"%", " ", "d", "o", "n", "e">>
LinePlain == <<"N", "O", "T", "I", "C", "E", " ", "o", "k", "\n">>
Line55 == <<"(", "5", "5", "%", ")", "\n">>
Line100 == <<"(", "1", "0", "0", "%", ")", "\n">>
LineBare40 == <<" ", "4", "0", "%", " ", "o", "f", " ", "9", "0", "%", "\n">>
LineOver == <<"E", "T", "A", " ", "+", "1", "_", "5", "0", "%">>
LineNeg == <<"-", "5", "%">>

\* the lines an engine run may write to its output
EngineLines ==
  { LineAria, LineWeird, LineLeadPct, LinePlain, Line55, Line100,
    LineBare40, LineOver, LineNeg }

ExitStatuses == 0..MaxExit

(* ------------------------------- state --------------------------------- *)
VARIABLES
  pc,            \* where the single thread of control is
  raw_input,     \* what input() returns
  aria2_exists,  \* Path(ARIA2_PATH).exists() when main checks it
  conf_exists,   \* DEFAULT_CONF_FILE.exists()
  user_input,    \* main's user_input
  args,          \* download_with_retries' args
  attempt,       \* the loop variable of download_with_retries
  phase,         \* "normal" inside the for loop, "fallback" after it
  last_error,    \* download_with_retries' last_error
  cmd,           \* run_with_progress' cmd
  delay,         \* the argument of the running time.sleep
  procs,         \* one entry per child spawned: "running" or "reaped"
  pbar,          \* the progress bar: its n and whether it is open
  emitted,       \* the lines the read loop has taken from the child so
                 \* far; empty when the loop is not running
  printed,       \* the lines print(line) has written in the running loop
  launched,      \* the command line of every child spawned
  sleeps,        \* the delay of every time.sleep begun
  exits,         \* the return code of every child waited for
  events,        \* launches, sleeps, exits and the messages printed about
                 \* the input, the engine and the attempts, in order
  exitCode       \* <<>> while running, <<code>> once the program has ended

vars ==
  << pc, raw_input, aria2_exists, conf_exists, user_input, args, attempt,
     phase, last_error, cmd, delay, procs, pbar, emitted, printed, launched,
     sleeps, exits, events, exitCode >>

Ev(e, m, n) == [ev |-> e, msg |-> m, n |-> n]

\* an exception's str(): a fixed text and, for a failed run, the return code
Err(text, rc) == [text |-> text, rc |-> rc]

NoError == Err("None", 0)

Init ==
  /\ pc = "main"
  /\ raw_input \in RawInputs
  /\ aria2_exists \in BOOLEAN
  /\ conf_exists \in BOOLEAN
  /\ user_input = <<>>
  /\ args = None
  /\ attempt = 0
  /\ phase = "normal"
  /\ last_error = NoError
  /\ cmd = <<>>
  /\ delay = 0
  /\ procs = <<>>
  /\ pbar = [n |-> 0, st |-> "none"]
  /\ emitted = <<>>
  /\ printed = <<>>
  /\ launched = <<>>
  /\ sleeps = <<>>
  /\ exits = <<>>
  /\ events = <<>>
  /\ exitCode = <<>>

(* ---------------------- control flow of the program -------------------- *)
\* a loop that runs one normal attempt too many
AttemptRangeOffByOne == 1..(RETRY_COUNT + 1)

\* the values of range(1, RETRY_COUNT + 1)
AttemptRange == 1..RETRY_COUNT

\* a retry handler that also catches a failed Popen
RetryCatchesOSError(exc) == exc \in {"RuntimeError", "OSError"}

\* a retry loop with except Exception in place of except RuntimeError
RetryCatchesException(exc) ==
  exc \in {"RuntimeError", "ValueError", "OSError", "UnicodeDecodeError"}

\* except RuntimeError, inside the for loop
RetryCatches(exc) == exc = "RuntimeError"

\* except Exception, in main: KeyboardInterrupt is not an Exception
MainCatches(exc) ==
  exc \in {"RuntimeError", "ValueError", "OSError", "UnicodeDecodeError"}

\* a retry loop that also sleeps after the last normal attempt
ShouldSleepAfterLast(a) == a <= RETRY_COUNT

\* if attempt < RETRY_COUNT
ShouldSleep(a) == a < RETRY_COUNT

\* a backoff that forgets the attempt number
BackoffDelayConstant(a) == RETRY_DELAY_BASE

\* delay = RETRY_DELAY_BASE * attempt
BackoffDelay(a) == RETRY_DELAY_BASE * a

\* a return-code test that takes 1 for the success status
FailedUnlessOne(rc) == rc # 1

\* if process.returncode != 0
Failed(rc) == rc # 0

\* a bar that carries the previous run's n over
NewBarKeepsN == [n |-> pbar.n, st |-> "open"]

\* tqdm(total=100, ...): a fresh bar starts at n = 0
NewBar == [n |-> 0, st |-> "open"]

\* the body of the read loop for the line l: strip it, set the bar when a
\* percentage parses, print the stripped line
LoopBody(l) ==
  LET line == Strip(l)
      percent == ParsePercent(line)
  IN [pbar |-> IF percent.ok THEN [pbar EXCEPT !.n = percent.val] ELSE pbar,
      printed |-> Append(printed, line)]

\* the status the interpreter ends with when nothing catches the exception:
\* 1 after the traceback of an ordinary exception; for KeyboardInterrupt
\* 128 + SIGINT on POSIX and STATUS_CONTROL_C_EXIT on Windows
UncaughtExits(exc) ==
  IF exc = "KeyboardInterrupt" THEN {130, 0 - 1073741510} ELSE {1}

\* the control state after some step
Ctl(p, a, ph, le, c, d, sl, log, code) ==
  [pc |-> p, attempt |-> a, phase |-> ph, last_error |-> le, cmd |-> c,
   delay |-> d, sleeps |-> sl, events |-> log, exitCode |-> code]

\* sys.exit(code), or main returning (code 0)
Exit(code, log) ==
  Ctl("exited", attempt, phase, last_error, cmd, delay, sleeps, log, <<code>>)

\* a handler that reports the error recorded by the retry loop
MainExceptLastError(exc, e, log, uncaught) ==
  IF MainCatches(exc)
    THEN Exit(2, Append(log, Ev("error", last_error.text, last_error.rc)))
    ELSE Exit(uncaught, Append(log, Ev("traceback", e.text, e.rc)))

\* a handler that prints the error and lets main return
MainExceptNoExit(exc, e, log, uncaught) ==
  IF MainCatches(exc)
    THEN Exit(0, Append(log, Ev("error", e.text, e.rc)))
    ELSE Exit(uncaught, Append(log, Ev("traceback", e.text, e.rc)))

\* an exception that reaches main's try statement
MainExcept(exc, e, log, uncaught) ==
  IF MainCatches(exc)
    THEN Exit(2, Append(log, Ev("error", e.text, e.rc)))
    ELSE Exit(uncaught, Append(log, Ev("traceback", e.text, e.rc)))

\* a loop that leaves for the fallback attempt without announcing it
AdvanceSilentFallback(a, a_args, le, log) ==
  IF a + 1 \in AttemptRange
    THEN Ctl("spawn", a + 1, "normal", le, Cmd(a_args), delay, sleeps,
             log \o << Ev("info", "Attempt", a + 1),
                       Ev("info", "Starting aria2c", 0) >>,
             <<>>)
    ELSE Ctl("spawn", a, "fallback", le, Cmd(fallback_args(a_args)), delay,
             sleeps,
             Append(log, Ev("info", "Starting aria2c", 0)),
             <<>>)

\* the for statement moves on from attempt a to the next normal attempt,
\* or leaves the loop for the fallback attempt; either way
\* run_with_progress announces the command and is about to spawn it
Advance(a, a_args, le, log) ==
  IF a + 1 \in AttemptRange
    THEN Ctl("spawn", a + 1, "normal", le, Cmd(a_args), delay, sleeps,
             log \o << Ev("info", "Attempt", a + 1),
                       Ev("info", "Starting aria2c", 0) >>,
             <<>>)
    ELSE Ctl("spawn", a, "fallback", le, Cmd(fallback_args(a_args)), delay,
             sleeps,
             log \o << Ev("warn", "Applying fallback options...", 0),
                       Ev("info", "Starting aria2c", 0) >>,
             <<>>)

\* an except clause that also catches the fallback run's error and goes on
RaisedRetriesFallback(exc, e, log, uncaught) ==
  IF RetryCatches(exc)
    THEN LET log1 == Append(log, Ev("warn", e.text, e.rc))
         IN IF ShouldSleep(attempt)
              THEN Ctl("sleep", attempt, phase, e, cmd, BackoffDelay(attempt),
                       Append(sleeps, BackoffDelay(attempt)),
                       log1 \o << Ev("info", "Retrying in", BackoffDelay(attempt)),
                                  Ev("sleep", "", BackoffDelay(attempt)) >>,
                       <<>>)
              ELSE Advance(attempt, args, e, log1)
    ELSE MainExcept(exc, e, log, uncaught)

\* an exception raised by run_with_progress
Raised(exc, e, log, uncaught) ==
  IF phase = "normal" /\ RetryCatches(exc)
    THEN LET log1 == Append(log, Ev("warn", e.text, e.rc))
         IN IF ShouldSleep(attempt)
              THEN Ctl("sleep", attempt, phase, e, cmd, BackoffDelay(attempt),
                       Append(sleeps, BackoffDelay(attempt)),
                       log1 \o << Ev("info", "Retrying in", BackoffDelay(attempt)),
                                  Ev("sleep", "", BackoffDelay(attempt)) >>,
                       <<>>)
              ELSE Advance(attempt, args, e, log1)
    ELSE MainExcept(exc, e, log, uncaught)

\* the assignment of a control state to the variables
Goto(c) ==
  \E k \in {c} :
    /\ pc' = k.pc
    /\ attempt' = k.attempt
    /\ phase' = k.phase
    /\ last_error' = k.last_error
    /\ cmd' = k.cmd
    /\ delay' = k.delay
    /\ sleeps' = k.sleeps
    /\ events' = k.events
    /\ exitCode' = k.exitCode

(* ------------------------------- actions ------------------------------- *)
(* main up to the first Popen: the prompt, the precondition checks,        *)
(* ensure_dirs and ensure_config, then download_with_retries down to the   *)
(* first run_with_progress announcing its command.  nt is TRUE when the    *)
(* program runs on Windows, FALSE on POSIX.  The welcome banner and        *)
(* ensure_config's notice are printed but not kept in events.              *)
(* ui is user_input after strip(), built the result of build_aria2_args,  *)
(* present the outcome of the test of line 184.                            *)
Main ==
  /\ pc = "main"
  /\ \E nt \in BOOLEAN, ui \in {Strip(raw_input)} :
     \E built \in {build_aria2_args(ui, nt)},
        present \in {IsUri(ui) \/ Exists(ui, nt)} :
       LET log == << Ev("info", "Using aria2c at", 0) >>
           entered == ui # <<>> /\ aria2_exists /\ present
       IN /\ user_input' = ui
          /\ conf_exists' = (conf_exists \/ ui # <<>>)
          /\ args' = IF entered THEN built ELSE args
          /\ Goto(IF ui = <<>>
                    THEN Exit(1, << Ev("error", "No input provided.", 0) >>)
                  ELSE IF ~aria2_exists
                    THEN Exit(1, << Ev("error", "aria2c not found", 0) >>)
                  ELSE IF ~present
                    THEN Exit(1, Append(log,
                           Ev("error", "The file path you entered does not exist.", 0)))
                  ELSE IF built = None
                    THEN MainExcept("ValueError", Err("Invalid input.", 0), log, 1)
                  ELSE Advance(0, built, NoError, log))
  /\ UNCHANGED << raw_input, aria2_exists, procs, pbar, emitted, printed,
                  launched, exits >>

(* subprocess.Popen starts the engine; tqdm makes a fresh bar *)
SpawnOk ==
  /\ pc = "spawn"
  /\ pc' = "read"
  /\ procs' = Append(procs, "running")
  /\ launched' = Append(launched, cmd)
  /\ pbar' = NewBar
  /\ emitted' = <<>>
  /\ printed' = <<>>
  /\ events' = Append(events, Ev("launch", phase, attempt))
  /\ UNCHANGED << raw_input, aria2_exists, conf_exists, user_input, args,
                  attempt, phase, last_error, cmd, delay, sleeps, exits,
                  exitCode >>

(* subprocess.Popen raises OSError: the executable is gone or cannot run *)
SpawnFail ==
  /\ pc = "spawn"
  /\ \E code \in UncaughtExits("OSError") :
       Goto(Raised("OSError", Err("OSError", 0),
                   Append(events, Ev("launchfail", phase, attempt)), code))
  /\ UNCHANGED << raw_input, aria2_exists, conf_exists, user_input, args,
                  procs, pbar, emitted, printed, launched, exits >>

(* one pass of the read loop: the child writes a line, the loop strips it, *)
(* sets the bar when a percentage parses, and prints the line              *)
ReadLine(l) ==
  /\ pc = "read"
  /\ Len(emitted) < MaxLines
  /\ pbar' = LoopBody(l).pbar
  /\ printed' = LoopBody(l).printed
  /\ emitted' = Append(emitted, l)
  /\ UNCHANGED << pc, raw_input, aria2_exists, conf_exists, user_input,
                  args, attempt, phase, last_error, cmd, delay, procs,
                  launched, sleeps, exits, events, exitCode >>

(* the child closes its output: the read loop ends, process.wait() begins *)
ReadEOF ==
  /\ pc = "read"
  /\ pc' = "wait"
  /\ emitted' = <<>>
  /\ printed' = <<>>
  /\ UNCHANGED << raw_input, aria2_exists, conf_exists, user_input, args,
                  attempt, phase, last_error, cmd, delay, procs, pbar,
                  launched, sleeps, exits, events, exitCode >>

(* the child writes bytes the text-mode pipe cannot decode: the iteration  *)
(* over process.stdout raises UnicodeDecodeError                           *)
ReadError ==
  /\ pc = "read"
  /\ \E code \in UncaughtExits("UnicodeDecodeError") :
       Goto(Raised("UnicodeDecodeError", Err("UnicodeDecodeError", 0),
                   events, code))
  /\ emitted' = <<>>
  /\ printed' = <<>>
  /\ UNCHANGED << raw_input, aria2_exists, conf_exists, user_input, args,
                  procs, pbar, launched, exits >>

(* process.wait() returns rc; the bar is closed; a non-zero rc raises      *)
(* RuntimeError, a zero rc prints the success message and main returns     *)
WaitReturn(rc) ==
  /\ pc = "wait"
  /\ procs' = [procs EXCEPT ![Len(procs)] = "reaped"]
  /\ exits' = Append(exits, rc)
  /\ pbar' = [pbar EXCEPT !.st = "closed"]
  /\ \E code \in UncaughtExits("RuntimeError") :
       LET log == Append(events, Ev("exit", phase, rc))
       IN Goto(IF Failed(rc)
                 THEN Raised("RuntimeError",
                             Err("aria2c exited with status", rc), log, code)
                 ELSE Exit(0, Append(log,
                        Ev("info", "Download completed successfully.", 0))))
  /\ UNCHANGED << raw_input, aria2_exists, conf_exists, user_input, args,
                  emitted, printed, launched >>

(* time.sleep(delay) returns and the for loop goes on *)
SleepDone ==
  /\ pc = "sleep"
  /\ Goto(Advance(attempt, args, last_error, events))
  /\ UNCHANGED << raw_input, aria2_exists, conf_exists, user_input, args,
                  procs, pbar, emitted, printed, launched, exits >>

(* Ctrl-C while the thread is blocked: KeyboardInterrupt is raised in the  *)
(* read loop or in process.wait() (inside the loop's try), or in           *)
(* time.sleep (inside the except clause, under main's try only)            *)
Interrupt ==
  /\ pc \in {"read", "wait", "sleep"}
  /\ \E code \in UncaughtExits("KeyboardInterrupt") :
       Goto(IF pc = "sleep"
              THEN MainExcept("KeyboardInterrupt", Err("KeyboardInterrupt", 0),
                              events, code)
              ELSE Raised("KeyboardInterrupt", Err("KeyboardInterrupt", 0),
                          events, code))
  /\ emitted' = <<>>
  /\ printed' = <<>>
  /\ UNCHANGED << raw_input, aria2_exists, conf_exists, user_input, args,
                  procs, pbar, launched, exits >>

Next ==
  \/ Main
  \/ SpawnOk
  \/ SpawnFail
  \/ \E l \in EngineLines : ReadLine(l)
  \/ ReadEOF
  \/ ReadError
  \/ \E rc \in ExitStatuses : WaitReturn(rc)
  \/ SleepDone
  \/ Interrupt

Spec == Init /\ [][Next]_vars

\* the steps the program takes by itself or on the child's closing its
\* output and exiting; reading one more line and an interrupt from outside
\* are the steps nothing obliges to happen
ProgramStep ==
  \/ Main
  \/ SpawnOk
  \/ SpawnFail
  \/ ReadEOF
  \/ ReadError
  \/ \E rc \in ExitStatuses : WaitReturn(rc)
  \/ SleepDone

\* The program is sequential and none of its own steps blocks for ever:
\* main's checks run, Popen returns or raises, time.sleep returns.  The
\* steps that wait for the child happen under the premise that every child
\* closes its output (the read loop meets the end of the stream, or fails
\* on it) and exits (process.wait returns).  The steps of different
\* positions of the program are never enabled together, so one weak
\* fairness condition on their disjunction is fairness for each of them.
Fairness == WF_vars(ProgramStep)

FairSpec == Init /\ [][Next]_vars /\ Fairness

TypeOK ==
  /\ pc \in {"main", "spawn", "read", "wait", "sleep", "exited"}
  /\ phase \in {"normal", "fallback"}
  /\ attempt \in 0..RETRY_COUNT
  /\ Len(emitted) <= MaxLines
  /\ Len(exitCode) <= 1
  /\ (pc = "exited") = (exitCode # <<>>)

(* ----------------------- vocabulary of the claims ---------------------- *)
Terminal == pc = "exited"

HasEvent(kind) == \E i \in 1..Len(events) : events[i].ev = kind

\* every child waited for so far returned a non-zero status
AllNonZero == \A i \in 1..Len(exits) : exits[i] # 0

\* the run was cut short by something other than an engine exit status
Disturbed ==
  \/ HasEvent("launchfail")
  \/ HasEvent("traceback")
  \/ \E i \in 1..Len(events) : events[i].msg = "UnicodeDecodeError"

IsLaunchOrSleep(e) == e.ev \in {"launch", "sleep"}

\* the launches and sleeps of the run, in the order they began
LaunchSleepOrder ==
  LET f == SelectSeq(events, IsLaunchOrSleep)
  IN [i \in 1..Len(f) |-> f[i].ev]

LastEvent == events[Len(events)]

(* ------------------------------- claims -------------------------------- *)

\* C1: when all RETRY_COUNT = 3 normal runs and the fallback run exit
\* non-zero, the program has ended in failure with exit code 2 after exactly
\* 4 launches; and an undisturbed run whose engine runs all exit non-zero
\* cannot end before the fourth launch.
C1_AllAttemptsFail ==
  /\ (Len(exits) = RETRY_COUNT + 1 /\ AllNonZero)
       => (Terminal /\ exitCode = <<2>> /\ Len(launched) = 4)
  /\ (Terminal /\ ~Disturbed /\ launched # <<>> /\ AllNonZero)
       => (Len(exits) = 4 /\ Len(launched) = 4 /\ exitCode = <<2>>)

C1_Witness ==
  /\ Terminal
  /\ Len(exits) = 4
  /\ AllNonZero
  /\ exitCode = <<2>>
  /\ phase = "fallback"

\* C2: three non-zero exits of the normal attempts followed by a zero exit
\* of the fallback attempt end in success (exit code 0) with exactly 4
\* launches and exactly 2 sleeps, of 5 then 10 seconds, one after each of
\* the first two attempts and none between the third attempt and the
\* fallback.
C2_FallbackSucceeds ==
  (/\ Len(exits) = 4
   /\ exits[1] # 0 /\ exits[2] # 0 /\ exits[3] # 0
   /\ exits[4] = 0)
    => /\ Terminal
       /\ exitCode = <<0>>
       /\ Len(launched) = 4
       /\ sleeps = <<5, 10>>
       /\ LaunchSleepOrder =
            <<"launch", "sleep", "launch", "sleep", "launch", "launch">>
       /\ LastEvent = Ev("info", "Download completed successfully.", 0)

C2_Witness ==
  /\ Terminal
  /\ Len(exits) = 4
  /\ exits[3] # 0
  /\ exits[4] = 0
  /\ sleeps = <<5, 10>>

\* the input matches none of the three accepted shapes, on either platform
Unclassifiable(s) == ~IsUri(s) /\ \A nt \in BOOLEAN : ~IsFile(s, nt)

\* C3: the program exits with 1 when the input is empty or unclassifiable
\* (a directory included) or the engine executable is missing; with 2 only
\* when all attempts including the fallback were exhausted; with 0 on
\* success.
C3_ExitCodes ==
  Terminal =>
    /\ (user_input = <<>> \/ Unclassifiable(user_input) \/ ~aria2_exists)
         => exitCode = <<1>>
    /\ exitCode = <<2>> => (Len(exits) = RETRY_COUNT + 1 /\ AllNonZero)
    /\ (exits # <<>> /\ exits[Len(exits)] = 0) => exitCode = <<0>>

\* C4: for the input magnet:?xt=urn:btih:EXAMPLE and an engine that writes a
\* line with (55%), then a line with (100%), then exits 0: once the two
\* lines are read the bar stands at 100, and the bar still shows 100 when
\* the run has ended in success with exit code 0 after one launch.
C4_EndToEnd ==
  /\ (/\ user_input = InMagnet
      /\ Len(launched) = 1
      /\ pc = "read"
      /\ emitted = <<Line55, Line100>>)
       => pbar.n = 100
  /\ (/\ user_input = InMagnet
      /\ Terminal
      /\ exits = <<0>>)
       => /\ exitCode = <<0>>
          /\ Len(launched) = 1
          /\ LastEvent = Ev("info", "Download completed successfully.", 0)

\* C5: the extraction yields 12 for "[#abc1 1.2MiB/10MiB(12%) CN:3 ...]"
\* and no update (and no error) for a line without '%', for "weird%text"
\* and for a line that begins with '%': after a child has written only such
\* lines the bar stands at 12 if the first of these lines was among them,
\* and at its initial 0 otherwise.
C5_Extraction ==
  (/\ pc = "read"
   /\ \A i \in 1..Len(emitted) :
        emitted[i] \in {LineAria, LinePlain, LineWeird, LineLeadPct})
    => pbar.n = IF \E i \in 1..Len(emitted) : emitted[i] = LineAria
                  THEN 12 ELSE 0

\* C6: in no terminal state is a child still running or not waited for,
\* however the consumption of its output ended.
C6_NoLeak ==
  Terminal => \A i \in 1..Len(procs) : procs[i] = "reaped"

\* C7: a launch failure is reported at once and ends the program: the error
\* message is the only thing that follows it, so no sleep, no further normal
\* attempt and no fallback attempt come after it, on whichever attempt it
\* occurs.
C7_LaunchFailureNotRetried ==
  \A i \in 1..Len(events) :
    events[i].ev = "launchfail"
      => /\ Terminal
         /\ Len(events) = i + 1
         /\ events[i + 1] = Ev("error", "OSError", 0)
         /\ Len(launched) = Len(exits)

C7_Witness ==
  /\ HasEvent("launchfail")
  /\ attempt = 2
  /\ sleeps = <<5>>
  /\ Len(launched) = 1

\* C8: when the fallback attempt fails, the error printed last is the
\* fallback run's own exit status, whatever the earlier attempts recorded,
\* and the program ends with code 2.
C8_FallbackErrorSurfaced ==
  (/\ Terminal
   /\ Len(exits) = RETRY_COUNT + 1
   /\ exits[Len(exits)] # 0)
    => /\ LastEvent = Ev("error", "aria2c exited with status", exits[Len(exits)])
       /\ exitCode = <<2>>

C8_Witness ==
  /\ Terminal
  /\ Len(exits) = RETRY_COUNT + 1
  /\ exits[Len(exits)] # 0
  /\ last_error.rc # exits[Len(exits)]

\* C9: the fallback attempt's argument list is the normal attempts'
\* argument list, unchanged, followed by exactly the five hardening flags.
C9_FallbackExtendsNormal ==
  (Len(launched) = RETRY_COUNT + 1) =>
    LET normal == ArgsOf(launched[1])
        fallback == ArgsOf(launched[RETRY_COUNT + 1])
    IN /\ \A i \in 1..RETRY_COUNT : launched[i] = launched[1]
       /\ normal = args
       /\ Len(fallback) = Len(normal) + 5
       /\ SubSeq(fallback, 1, Len(normal)) = normal
       /\ SubSeq(fallback, Len(normal) + 1, Len(fallback)) =
            << Flag("--bt-enable-lpd=true"),
               Flag("--bt-detach-seed-only=true"),
               Flag("--timeout=30"),
               Flag("--connect-timeout=20"),
               Flag("--retry-wait=10") >>

C9_Witness ==
  /\ Len(launched) = RETRY_COUNT + 1
  /\ user_input = Strip(InFile)
  /\ procs[RETRY_COUNT + 1] = "running"

\* the last k arguments of the first command launched
LaunchedTail(k) ==
  LET a == ArgsOf(launched[1]) IN SubSeq(a, Len(a) - k + 1, Len(a))

\* C10: a magnet: input is launched with the input verbatim as the final
\* positional argument, even when a file of that name exists; otherwise an
\* http:// or https:// input likewise; otherwise an existing file is
\* launched with the torrent-file flag followed by its path; and a
\* non-existing, non-URL, non-magnet input fails before anything is
\* launched.
C10_Classification ==
  /\ launched # <<>> =>
       /\ SubSeq(ArgsOf(launched[1]), 1, Len(base_args)) = base_args
       /\ IF IsUri(user_input)
            THEN /\ ArgsOf(launched[1]) = Append(base_args, Arg("", user_input))
                 /\ LaunchedTail(1) = << Arg("", user_input) >>
            ELSE \E nt \in BOOLEAN :
                   /\ IsFile(user_input, nt)
                   /\ Len(ArgsOf(launched[1])) = Len(base_args) + 2
                   /\ LaunchedTail(2) =
                        << Flag("-T"), Arg("", PathStr(user_input, nt)) >>
  /\ (pc # "main" /\ aria2_exists /\ user_input # <<>>
        /\ (IsUri(user_input) \/ \A nt \in BOOLEAN : IsFile(user_input, nt)))
       => (pc = "spawn" \/ HasEvent("launch") \/ HasEvent("launchfail"))
  /\ (pc # "main" /\ user_input # <<>>
        /\ ~IsUri(user_input) /\ \A nt \in BOOLEAN : ~Exists(user_input, nt))
       => /\ Terminal
          /\ launched = <<>>
          /\ exitCode = <<1>>
          /\ aria2_exists =>
               LastEvent = Ev("error", "The file path you entered does not exist.", 0)

C10_Witness ==
  /\ launched # <<>>
  /\ user_input = InMagnetFile
  /\ \A nt \in BOOLEAN : IsFile(user_input, nt)
  /\ LaunchedTail(1) = << Arg("", InMagnetFile) >>

\* the message that announces the launch recorded by the event e
Announcement(e) ==
  IF e.msg = "normal" THEN Ev("info", "Attempt", e.n)
  ELSE Ev("warn", "Applying fallback options...", 0)

\* C11: every launch (successful or not) of a normal attempt comes after
\* that attempt's "Attempt n" message, the fallback launch after the
\* "Applying fallback options..." message, and every sleep after its
\* "Retrying in d" message; and a run that has ended printed its final state
\* last: the success message when it ended with 0, the error that ended it
\* when it ended with 1 or 2 (classification and launch failures included),
\* the interpreter's traceback otherwise.
C11_Announced ==
  /\ \A i \in 1..Len(events) :
       /\ events[i].ev \in {"launch", "launchfail"}
            => /\ i > 2
               /\ events[i - 1] = Ev("info", "Starting aria2c", 0)
               /\ events[i - 2] = Announcement(events[i])
       /\ events[i].ev = "sleep"
            => /\ i > 1
               /\ events[i - 1] = Ev("info", "Retrying in", events[i].n)
  /\ Terminal =>
       /\ exitCode = <<0>>
            => LastEvent = Ev("info", "Download completed successfully.", 0)
       /\ exitCode \in {<<1>>, <<2>>} => LastEvent.ev = "error"
       /\ exitCode \notin {<<0>>, <<1>>, <<2>>} => LastEvent.ev = "traceback"

C11_Witness ==
  /\ Terminal
  /\ LaunchSleepOrder =
       <<"launch", "sleep", "launch", "sleep", "launch", "launch">>
  /\ LastEvent.ev = "error"
  /\ events[Len(events) - 4] = Ev("warn", "Applying fallback options...", 0)

IsRunEvent(e) == e.ev \in {"launch", "launchfail", "sleep", "exit"}

\* the launches, failed launches, child exits and sleeps of the run, in order
RunEvents == SelectSeq(events, IsRunEvent)

\* C12: a non-zero exit of normal attempt n < RETRY_COUNT is followed by
\* exactly one sleep, of RETRY_DELAY_BASE * n seconds, and only then by the
\* launch of attempt n + 1; a non-zero exit of attempt n = RETRY_COUNT is
\* followed by no sleep, the next launch being the fallback's.
C12_Backoff ==
  LET f == RunEvents
  IN \A i \in 1..Len(f) :
       (f[i].ev = "exit" /\ f[i].msg = "normal" /\ f[i].n # 0) =>
         /\ i > 1
         /\ f[i - 1].ev = "launch"
         /\ LET n == f[i - 1].n
            IN IF n < RETRY_COUNT
                 THEN /\ Len(f) > i
                      /\ f[i + 1] = Ev("sleep", "", RETRY_DELAY_BASE * n)
                      /\ sleeps[n] = RETRY_DELAY_BASE * n
                      /\ Len(f) > i + 1 =>
                           f[i + 2] \in { Ev("launch", "normal", n + 1),
                                          Ev("launchfail", "normal", n + 1) }
                 ELSE /\ n = RETRY_COUNT
                      /\ Len(sleeps) = RETRY_COUNT - 1
                      /\ Len(f) > i =>
                           f[i + 1] \in { Ev("launch", "fallback", n),
                                          Ev("launchfail", "fallback", n) }

C12_Witness ==
  /\ pc = "read"
  /\ phase = "fallback"
  /\ Len(exits) = RETRY_COUNT
  /\ sleeps = <<RETRY_DELAY_BASE, RETRY_DELAY_BASE * 2>>

\* C13: once a child has exited with status 0 the run is over: when it was
\* the child of normal attempt n, the program has ended in success (exit
\* code 0) after exactly n launches and n - 1 sleeps, and its exit and the
\* success message are the last things that happened.
C13_ZeroExitTerminal ==
  \A n \in 1..Len(exits) :
    exits[n] = 0 =>
      /\ n = Len(exits)
      /\ Terminal
      /\ exitCode = <<0>>
      /\ Len(launched) = n
      /\ n <= RETRY_COUNT =>
           /\ Len(sleeps) = n - 1
           /\ attempt = n
           /\ events[Len(events) - 1] = Ev("exit", "normal", 0)
      /\ LastEvent = Ev("info", "Download completed successfully.", 0)

C13_Witness ==
  /\ Terminal
  /\ Len(exits) = 2
  /\ exits[1] # 0
  /\ exits[2] = 0
  /\ Len(launched) = 2
  /\ sleeps = <<RETRY_DELAY_BASE>>

\* C14: the bar's value is an integer between 0 and 100 in every reachable
\* state, whatever lines the children write, lines whose percentage token
\* reads above 100 or below 0 included.
C14_ProgressRange == pbar.n \in 0..100

\* the percentage each line of EngineLines carries for the parser of lines
\* 121-123: the first '%' of " 40% of 90%" follows the token 40, that of
\* "ETA +1_50%" the token +1_50, that of "-5%" the token -5; the other lines
\* have no '%' or no integer token before it
LinePercent ==
  [l \in {LineBare40, LineOver, LineNeg} |->
     IF l = LineBare40 THEN 40 ELSE IF l = LineOver THEN 150 ELSE 0 - 5]

\* the bar's value after the lines s of one attempt: that of the last line
\* carrying a percentage, 0 when there is none
BarAfter(s) ==
  LET hits == { i \in 1..Len(s) : s[i] \in DOMAIN LinePercent }
  IN IF hits = {} THEN 0
     ELSE LinePercent[s[CHOOSE i \in hits : \A j \in hits : j <= i]]

\* C15: while an attempt (normal or fallback) reads its child's output the
\* bar stands at the percentage of the last line that carried one, lower
\* than the value before it or not, and at 0 when no line of this attempt
\* carried one, whatever the previous attempt left.
C15_ResetAndSet ==
  pc = "read" => (pbar.st = "open" /\ pbar.n = BarAfter(emitted))

C15_Witness ==
  /\ pc = "read"
  /\ Len(launched) = 2
  /\ emitted = <<LineOver, LineBare40>>
  /\ pbar.n = 40

\* the children started and not yet waited for
Alive == { i \in 1..Len(procs) : procs[i] = "running" }

\* C16: at most one child is alive at any time, and it is the one launched
\* last; when the program is about to launch a child or sleeps between
\* attempts, every child launched before has been read to the end of its
\* output and waited for, and in the order of the run every sleep and every
\* launch but the first comes after the exit of the child launched before.
C16_OneChild ==
  /\ Cardinality(Alive) <= 1
  /\ Alive \subseteq {Len(procs)}
  /\ pc \in {"spawn", "sleep"} =>
       /\ Alive = {}
       /\ Len(exits) = Len(procs)
       /\ emitted = <<>>
  /\ LET f == RunEvents
     IN \A i \in 2..Len(f) :
          /\ f[i].ev = "sleep" => f[i - 1].ev = "exit"
          /\ f[i].ev = "launch" =>
               \/ f[i - 1].ev = "exit"
               \/ f[i - 1].ev = "sleep" /\ f[i - 2].ev = "exit"

C16_Witness ==
  /\ pc = "wait"
  /\ Len(procs) = 3
  /\ Alive = {3}
  /\ Len(exits) = 2

IsError(e) == e.ev = "error"

\* C17: once the input is known to be unclassifiable (neither a magnet link
\* nor an http(s) URL nor an existing file) the program has ended with one
\* error message, the classification error when the input is not empty and
\* the engine is present, without having announced or started any attempt:
\* no launch, no failed launch, no sleep.
C17_Unclassifiable ==
  (pc # "main" /\ Unclassifiable(user_input)) =>
    /\ Terminal
    /\ attempt = 0
    /\ launched = <<>>
    /\ procs = <<>>
    /\ sleeps = <<>>
    /\ ~HasEvent("launchfail")
    /\ \A i \in 1..Len(events) : events[i].msg # "Attempt"
    /\ Len(SelectSeq(events, IsError)) = 1
    /\ LastEvent.ev = "error"
    /\ (user_input # <<>> /\ aria2_exists) =>
         LastEvent.msg \in { "The file path you entered does not exist.",
                             "Invalid input." }

C17_Witness ==
  /\ Terminal
  /\ user_input = InDir
  /\ Unclassifiable(user_input)
  /\ LastEvent = Ev("error", "Invalid input.", 0)
  /\ launched = <<>>

\* C18: while an attempt reads its child's output, the lines printed are the
\* lines the child wrote, once each and in the child's order (without their
\* surrounding white space), percentage or not; and no line ends an attempt:
\* unless the run was interrupted from outside, every child launched was
\* read to the end and waited for, its exit status deciding the attempt.
C18_LinesForwarded ==
  /\ pc = "read" =>
       /\ Len(printed) = Len(emitted)
       /\ \A i \in 1..Len(emitted) : printed[i] = Strip(emitted[i])
  /\ (Terminal /\ ~HasEvent("traceback")) => Len(exits) = Len(launched)

IsFallbackLaunch(e) == e.ev \in {"launch", "launchfail"} /\ e.msg = "fallback"

\* the launches and sleeps stay within the retry budget, and the fallback
\* launch, tried at most once, is the last launch of the run
WithinBudget ==
  /\ Len(launched) <= RETRY_COUNT + 1
  /\ Len(procs) <= RETRY_COUNT + 1
  /\ Len(sleeps) <= RETRY_COUNT - 1
  /\ Len(SelectSeq(events, IsFallbackLaunch)) <= 1
  /\ \A i \in 1..Len(events) :
       IsFallbackLaunch(events[i]) =>
         \A j \in (i + 1)..Len(events) :
           events[j].ev \notin {"launch", "launchfail", "sleep"}

\* C19: when every child closes its output and exits, the program reaches
\* its end, and at every moment it has launched at most RETRY_COUNT + 1
\* children and slept at most RETRY_COUNT - 1 times, the fallback having
\* been launched at most once and nothing after it.
C19_Terminates == <>Terminal /\ []WithinBudget

C19_Witness ==
  /\ Terminal
  /\ Len(launched) = RETRY_COUNT + 1
  /\ Len(exits) = RETRY_COUNT + 1
  /\ Len(sleeps) = RETRY_COUNT - 1
  /\ Len(SelectSeq(events, IsFallbackLaunch)) = 1

\* the child launched last has exited, with status 0
LastChildSucceeded ==
  /\ launched # <<>>
  /\ Len(exits) = Len(launched)
  /\ exits[Len(exits)] = 0

\* the child launched last has exited, with a status other than 0
LastChildFailed ==
  /\ launched # <<>>
  /\ Len(exits) = Len(launched)
  /\ exits[Len(exits)] # 0

====
